---- MODULE Spec2Model ----
(***************************************************************************)
(* Model of the order-capture application src/app.py (Flask + SQLite):     *)
(* the session cart, the order ledger (tables orders / order_lines), the   *)
(* admin gate and the export, and the item view of the order form.         *)
(*                                                                         *)
(* Texts that the code trims or parses (customer ids, quantities) are      *)
(* sequences of one-character strings, so that strip() and float() are     *)
(* computed and not assumed.  Timestamps are integers (seconds); a         *)
(* calendar day lasts DayLen of them.                                      *)
(***************************************************************************)
EXTENDS Integers, Sequences, FiniteSets, TLC

VARIABLES
    session,       \* per browser session: [cart, is_admin] (Flask session)
    orders,        \* committed rows of table orders, in rowid order
    order_lines,   \* committed rows of table order_lines, in rowid order
    sqlite_seq,    \* sqlite_sequence: last AUTOINCREMENT id of each table
    txn,           \* the open write transaction of the database, if any
    inflight,      \* requests being served step by step (concurrent server)
    export_state,  \* export_state.json: the last_export marker
    items,         \* items.xlsx as load_items() reads it
    cust_items,    \* customer_items/*.xlsx as load_customer_items() reads them
    export_template, \* export_template.xlsx, if the file exists
    clock,         \* the latest reading of the clock (now_iso)
    last,          \* the response to the last request served
    nreq           \* number of requests served so far

vars == <<session, orders, order_lines, sqlite_seq, txn, inflight,
          export_state, items, cust_items, export_template, clock, last, nreq>>

(***************************************************************************)
(* Bounds                                                                  *)
(***************************************************************************)
MaxReq == 4        \* requests served in one behaviour
MaxOrders == 2     \* orders committed in one behaviour
MaxClock == 1      \* latest clock reading
DayLen == 2        \* clock units in one calendar day

Sessions == {"s1", "s2"}

\* customer_id texts as they arrive in a form or query string
RawCustomers == { <<" ">>, <<" ", "a">>, <<"b">> }
\* quantity texts as they arrive in a form
QtyTexts == { <<>>, <<"0">>, <<"-", "1">>, <<"x">>, <<"1">>, <<" ", "2">> }
\* the quantity texts that occur together in forms of several fields
PairTexts == { <<"0">>, <<"1">>, <<" ", "2">> }
\* item codes a cart form may carry: k1 is in the catalog, k9 is not
Codes == {"k1", "k9"}

(***************************************************************************)
(* Text helpers: str.strip() and float()                                   *)
(***************************************************************************)
RECURSIVE LStrip(_)
LStrip(t) == IF t # <<>> /\ Head(t) = " " THEN LStrip(Tail(t)) ELSE t

RECURSIVE RStrip(_)
RStrip(t) ==
    IF t # <<>> /\ t[Len(t)] = " " THEN RStrip(SubSeq(t, 1, Len(t) - 1)) ELSE t

\* str.strip()
Strip(t) == RStrip(LStrip(t))

Digits == {"0", "1", "2", "3", "4", "5", "6", "7", "8", "9"}

DigitVal(ch) ==
    CASE ch = "0" -> 0 [] ch = "1" -> 1 [] ch = "2" -> 2 [] ch = "3" -> 3
      [] ch = "4" -> 4 [] ch = "5" -> 5 [] ch = "6" -> 6 [] ch = "7" -> 7
      [] ch = "8" -> 8 [] ch = "9" -> 9

RECURSIVE DecimalVal(_)
DecimalVal(t) ==
    IF t = <<>> THEN 0
    ELSE 10 * DecimalVal(SubSeq(t, 1, Len(t) - 1)) + DigitVal(t[Len(t)])

\* float(text) on the texts of the model: surrounding blanks are ignored, an
\* optional sign, then digits; anything else raises ValueError (ok = FALSE).
ParseFloat(t) ==
    LET u == Strip(t)
        neg == u # <<>> /\ Head(u) = "-"
        body == IF u # <<>> /\ Head(u) \in {"-", "+"} THEN Tail(u) ELSE u
    IN  IF body # <<>> /\ \A i \in 1..Len(body) : body[i] \in Digits
        THEN [ok |-> TRUE,
              v |-> IF neg THEN 0 - DecimalVal(body) ELSE DecimalVal(body)]
        ELSE [ok |-> FALSE, v |-> 0]

CustKeys == { Strip(r) : r \in RawCustomers }

(***************************************************************************)
(* Catalog                                                                 *)
(***************************************************************************)
ItemsUniverse ==
    { [ItemCode |-> "k1", ItemName |-> "n1", Domain |-> "A",
       Category |-> "X", SubCategory |-> "P"],
      [ItemCode |-> "k2", ItemName |-> "n2", Domain |-> "A",
       Category |-> "X", SubCategory |-> "Q"],
      [ItemCode |-> "k3", ItemName |-> "n3", Domain |-> "B",
       Category |-> "Y", SubCategory |-> "Q"] }

\* items_df.loc[code, "ItemName"] if code in items_df.index else ""
ItemNameOf(items_df, code) ==
    IF \E it \in items_df : it.ItemCode = code
    THEN (CHOOSE it \in items_df : it.ItemCode = code).ItemName
    ELSE ""

(***************************************************************************)
(* Session cart: session['cart'][customer][code] = {"qty", "name"}.        *)
(* A customer's cart is a function from the codes it holds to entries; a   *)
(* customer without a cart has the empty one (setdefault).  The session    *)
(* is serialised to the cookie with sorted keys, so a cart read back by a  *)
(* later request iterates in code order (CodeOrder).                       *)
(***************************************************************************)
EmptyCart == [k \in {} |-> 0]

\* mutant of CodeOrder: the cart iterates in the order the codes were added
CodeOrderAsAdded == <<"k9", "k3", "k2", "k1">>

CodeOrder == <<"k1", "k2", "k3", "k9">>

\* session.setdefault("cart", {}) of a fresh session
NewSession == [cart |-> [c \in CustKeys |-> EmptyCart], is_admin |-> FALSE]

\* get_customer_cart(cust_no)
get_customer_cart(sess, cust_no) == sess.cart[cust_no]

\* set_customer_cart(cust_no, data)
set_customer_cart(sess, cust_no, data) ==
    [sess EXCEPT !.cart = [@ EXCEPT ![cust_no] = data]]

\* cart[code] = {"qty": qty, "name": name}
CartPut(cart, code, qty, name) ==
    [k \in DOMAIN cart \cup {code} |->
        IF k = code THEN [qty |-> qty, name |-> name] ELSE cart[k]]

\* cart.pop(code, None)
CartPop(cart, code) == [k \in DOMAIN cart \ {code} |-> cart[k]]

\* qty = float(val) if val.strip() != "" else 0, except: qty = 0
FormQty(val) ==
    IF Strip(val) = <<>> THEN 0
    ELSE IF ParseFloat(val).ok THEN ParseFloat(val).v ELSE 0

\* mutant of UpdateCartField: a quantity of zero is stored, only a negative one removes
UpdateCartFieldKeepZero(cart, code, val, items_df) ==
    IF FormQty(val) >= 0
    THEN CartPut(cart, code, FormQty(val), ItemNameOf(items_df, code))
    ELSE CartPop(cart, code)

\* one iteration of the loop of update_cart over a qty_<code> field
UpdateCartField(cart, code, val, items_df) ==
    IF FormQty(val) > 0
    THEN CartPut(cart, code, FormQty(val), ItemNameOf(items_df, code))
    ELSE CartPop(cart, code)

\* the fields of a form applied one after the other to a cart
RECURSIVE ApplyFields(_, _, _)
ApplyFields(cart, form, items_df) ==
    IF DOMAIN form = {} THEN cart
    ELSE LET code == CHOOSE k \in DOMAIN form : TRUE
             rest == [k \in DOMAIN form \ {code} |-> form[k]]
         IN  ApplyFields(UpdateCartField(cart, code, form[code], items_df),
                         rest, items_df)

\* mutant of UpdateCartLoop: the cart is rebuilt from the form alone
UpdateCartLoopOverwrite(cart, form, items_df) == ApplyFields(EmptyCart, form, items_df)

\* the loop of update_cart over the qty_ fields of the form (one per code)
RECURSIVE UpdateCartLoop(_, _, _)
UpdateCartLoop(cart, form, items_df) ==
    IF DOMAIN form = {} THEN cart
    ELSE LET code == CHOOSE k \in DOMAIN form : TRUE
             rest == [k \in DOMAIN form \ {code} |-> form[k]]
         IN  UpdateCartLoop(UpdateCartField(cart, code, form[code], items_df),
                            rest, items_df)

\* A handler is a function of the session it loaded and of its input and
\* returns the session it saves and its response.
Response(op, status) == [op |-> op, status |-> status, order_id |-> 0,
                          body |-> [header |-> <<>>, rows |-> <<>>, selected |-> <<>>]]

\* mutant of update_cart: the missing customer is not rejected
update_cart_unchecked(sess, customer_raw, form, items_df) ==
    [sess |-> set_customer_cart(sess, Strip(customer_raw),
                  UpdateCartLoop(get_customer_cart(sess, Strip(customer_raw)),
                                 form, items_df)),
     resp |-> Response("update_cart", "redirect")]

\* POST /update_cart
update_cart(sess, customer_raw, form, items_df) ==
    LET customer_id == Strip(customer_raw)
    IN  IF customer_id = <<>>
        THEN [sess |-> sess, resp |-> Response("update_cart", "no_customer")]
        ELSE [sess |-> set_customer_cart(sess, customer_id,
                          UpdateCartLoop(get_customer_cart(sess, customer_id),
                                         form, items_df)),
              resp |-> Response("update_cart", "redirect")]

\* POST /cart/remove
cart_remove(sess, customer_raw, item_code) ==
    LET customer_id == Strip(customer_raw)
    IN  [sess |-> set_customer_cart(sess, customer_id,
                      CartPop(get_customer_cart(sess, customer_id), item_code)),
         resp |-> Response("cart_remove", "redirect")]

\* qty of cart_update_line: float(quantity.strip()), except: qty = 0
LineQty(val) == IF ParseFloat(Strip(val)).ok THEN ParseFloat(Strip(val)).v ELSE 0

\* mutant of cart_update_line: the quantity is stored whatever its sign
cart_update_line_unchecked(sess, customer_raw, item_code, quantity, items_df) ==
    LET customer_id == Strip(customer_raw)
        cart == get_customer_cart(sess, customer_id)
    IN  [sess |-> set_customer_cart(sess, customer_id,
                      CartPut(cart, item_code, LineQty(quantity),
                              ItemNameOf(items_df, item_code))),
         resp |-> Response("cart_update_line", "redirect")]

\* POST /cart/update
cart_update_line(sess, customer_raw, item_code, quantity, items_df) ==
    LET customer_id == Strip(customer_raw)
        cart == get_customer_cart(sess, customer_id)
        qty == LineQty(quantity)
        old == IF item_code \in DOMAIN cart THEN cart[item_code].name ELSE ""
        name == IF old # "" THEN old ELSE ItemNameOf(items_df, item_code)
    IN  [sess |-> set_customer_cart(sess, customer_id,
                      IF qty > 0 THEN CartPut(cart, item_code, qty, name)
                      ELSE CartPop(cart, item_code)),
         resp |-> Response("cart_update_line", "redirect")]

(***************************************************************************)
(* Ledger: tables orders and order_lines of orders.db.  The columns        *)
(* sales_manager and delivery_date are stored as given and never read      *)
(* back by any decision of the program; they are left out.                 *)
(***************************************************************************)
RECURSIVE SeqMax(_)
SeqMax(q) ==
    IF q = <<>> THEN 0
    ELSE IF Head(q) > SeqMax(Tail(q)) THEN Head(q) ELSE SeqMax(Tail(q))

\* mutant of NextRowId: the counter is read but not advanced
NextRowIdStuck(seq_value) == seq_value

\* id INTEGER PRIMARY KEY AUTOINCREMENT: one more than the largest id the
\* table ever held (sqlite_sequence)
NextRowId(seq_value) == seq_value + 1

\* INSERT INTO orders (...) VALUES (...): the new row
OrderRow(order_id, customer_id, created_at) ==
    [id |-> order_id, customer_number |-> customer_id, created_at |-> created_at]

\* mutant of CartLines: the loop stops after the first line it inserts
RECURSIVE CartLinesFirst(_, _, _, _)
CartLinesFirst(cart, codes, order_id, line_seq) ==
    IF codes = <<>> THEN <<>>
    ELSE IF Head(codes) \in DOMAIN cart /\ cart[Head(codes)].qty > 0
         THEN <<[id |-> line_seq + 1, order_id |-> order_id,
                 item_code |-> Head(codes), quantity |-> cart[Head(codes)].qty]>>
         ELSE CartLinesFirst(cart, Tail(codes), order_id, line_seq)

\* the loop of submit_order over cart.items(): one order_lines row for each
\* entry with qty > 0, in the cart's iteration order
RECURSIVE CartLines(_, _, _, _)
CartLines(cart, codes, order_id, line_seq) ==
    IF codes = <<>> THEN <<>>
    ELSE IF Head(codes) \in DOMAIN cart /\ cart[Head(codes)].qty > 0
         THEN <<[id |-> NextRowId(line_seq), order_id |-> order_id,
                 item_code |-> Head(codes), quantity |-> cart[Head(codes)].qty]>>
              \o CartLines(cart, Tail(codes), order_id, NextRowId(line_seq))
         ELSE CartLines(cart, Tail(codes), order_id, line_seq)

\* mutant of InsertOrder: the table is rewritten with the new row alone
InsertOrderReplace(rows, row) == <<row>>

\* cur.execute("INSERT INTO orders ..."): the table with the new row
InsertOrder(rows, row) == Append(rows, row)

\* cur.execute("INSERT INTO order_lines ...") for each line: the table after them
InsertLines(rows, lines) == rows \o lines

\* mutant of SubmitCheck: the empty cart is not rejected
SubmitCheckNoEmpty(sess, customer_raw) ==
    IF Strip(customer_raw) = <<>> THEN "no_customer" ELSE "write"

\* POST /submit up to the decision to write: the rejection, or "write"
SubmitCheck(sess, customer_raw) ==
    LET customer_id == Strip(customer_raw)
    IN  IF customer_id = <<>> THEN "no_customer"
        ELSE IF DOMAIN get_customer_cart(sess, customer_id) = {} THEN "empty_cart"
        ELSE "write"

\* POST /submit served in one piece: the session saved, the tables after the
\* commit, and the response
submit_order(sess, customer_raw, created_at, db) ==
    LET customer_id == Strip(customer_raw)
        check == SubmitCheck(sess, customer_raw)
        order_id == NextRowId(db.seq.orders)
        lines == CartLines(get_customer_cart(sess, customer_id), CodeOrder,
                           order_id, db.seq.order_lines)
    IN  IF check # "write"
        THEN [sess |-> sess, db |-> db, resp |-> Response("submit_order", check)]
        ELSE [sess |-> set_customer_cart(sess, customer_id, EmptyCart),
              db |-> [orders |-> InsertOrder(db.orders,
                                             OrderRow(order_id, customer_id, created_at)),
                      order_lines |-> InsertLines(db.order_lines, lines),
                      seq |-> [orders |-> order_id,
                               order_lines |-> db.seq.order_lines + Len(lines)]],
              resp |-> [Response("submit_order", "saved") EXCEPT !.order_id = order_id]]

\* the committed database as one value
Database == [orders |-> orders, order_lines |-> order_lines, seq |-> sqlite_seq]

(***************************************************************************)
(* Admin gate and export                                                   *)
(***************************************************************************)
ADMIN_PASSWORD == "admin123"

DEFAULT_EXPORT_FIXED ==
    [DocType |-> "ZSTD", SalesOrg |-> "1000", DistrChannel |-> "10",
     Division |-> "00", Plant |-> "1000", Currency |-> "ILS"]

DEFAULT_EXPORT_ORDER ==
    <<"OrderSerial", "ReferenceDate", "CustomerNumber", "ItemCode", "Quantity",
      "DocType", "SalesOrg", "DistrChannel", "Division", "Plant", "Currency">>

\* export_template.xlsx: absent, or a sheet that may have the columns Field
\* and DefaultValue; a blank DefaultValue cell is read as NaN, written ""
NoTemplate == [exists |-> FALSE, has_columns |-> FALSE, rows |-> <<>>]
TemplateFile(rows) == [exists |-> TRUE, has_columns |-> TRUE, rows |-> rows]

\* the cells of a sheet: a number, a text, or an empty cell (NaN)
Num(n) == [num |-> n]
Text(x) == [text |-> x]
Blank == [blank |-> TRUE]

\* a DefaultValue cell of the template as pandas reads it
DefaultCell(v) == IF v = "" THEN Blank ELSE Text(v)

\* df.set_index("Field")["DefaultValue"].to_dict(): one key per row of the sheet
TemplateDefaults(rows) ==
    [f \in { rows[i].Field : i \in 1..Len(rows) } |->
        DefaultCell(rows[CHOOSE i \in 1..Len(rows) :
                           /\ rows[i].Field = f
                           /\ \A j \in (i + 1)..Len(rows) : rows[j].Field # f].DefaultValue)]

load_export_template(file) ==
    IF file.exists /\ file.has_columns
    THEN [fields |-> [i \in 1..Len(file.rows) |-> file.rows[i].Field],
          defaults |-> TemplateDefaults(file.rows)]
    ELSE [fields |-> DEFAULT_EXPORT_ORDER,
          defaults |-> [f \in DOMAIN DEFAULT_EXPORT_FIXED |-> Text(DEFAULT_EXPORT_FIXED[f])]]

\* mutant of admin: every password opens the admin session
admin_any_password(sess, pwd) ==
    [sess |-> [sess EXCEPT !.is_admin = TRUE], resp |-> Response("admin", "redirect")]

\* POST /admin
admin(sess, pwd) ==
    IF pwd = ADMIN_PASSWORD
    THEN [sess |-> [sess EXCEPT !.is_admin = TRUE], resp |-> Response("admin", "redirect")]
    ELSE [sess |-> sess, resp |-> Response("admin", "wrong_password")]

\* A bound of an export range: absent (NoBound), a timestamp, a calendar date,
\* or a text SQLite's datetime() cannot read.
NoBound == [kind |-> "none", v |-> 0]
TsBound(t) == [kind |-> "ts", v |-> t]
DateBound(d) == [kind |-> "date", v |-> d]
BadBound == [kind |-> "bad", v |-> 0]

\* SQLite datetime(text): a date is its midnight, an unreadable text is NULL
SqlDateTime(b) ==
    CASE b.kind = "ts" -> [null |-> FALSE, v |-> b.v]
      [] b.kind = "date" -> [null |-> FALSE, v |-> b.v * DayLen]
      [] OTHER -> [null |-> TRUE, v |-> 0]

\* mutant of QueryKeeps: the lower bound is exclusive
QueryKeepsStrict(o, from_dt, to_dt) ==
    /\ from_dt # NoBound =>
          (~SqlDateTime(from_dt).null /\ o.created_at > SqlDateTime(from_dt).v)
    /\ to_dt # NoBound =>
          (~SqlDateTime(to_dt).null /\ o.created_at <= SqlDateTime(to_dt).v)

\* the WHERE clause of _query_orders on one order row
QueryKeeps(o, from_dt, to_dt) ==
    /\ from_dt # NoBound =>
          (~SqlDateTime(from_dt).null /\ o.created_at >= SqlDateTime(from_dt).v)
    /\ to_dt # NoBound =>
          (~SqlDateTime(to_dt).null /\ o.created_at <= SqlDateTime(to_dt).v)

\* the rows of one order in the join, ORDER BY l.id
RECURSIVE JoinLines(_, _)
JoinLines(o, lines) ==
    IF lines = <<>> THEN <<>>
    ELSE IF Head(lines).order_id = o.id
         THEN <<[order_id |-> o.id, customer_number |-> o.customer_number,
                 created_at |-> o.created_at, item_code |-> Head(lines).item_code,
                 quantity |-> Head(lines).quantity]>> \o JoinLines(o, Tail(lines))
         ELSE JoinLines(o, Tail(lines))

\* _query_orders(from_dt, to_dt): orders JOIN order_lines, ORDER BY o.id, l.id
RECURSIVE QueryFrom(_, _, _, _)
QueryFrom(os, lines, from_dt, to_dt) ==
    IF os = <<>> THEN <<>>
    ELSE (IF QueryKeeps(Head(os), from_dt, to_dt)
          THEN JoinLines(Head(os), lines) ELSE <<>>)
         \o QueryFrom(Tail(os), lines, from_dt, to_dt)

_query_orders(db, from_dt, to_dt) == QueryFrom(db.orders, db.order_lines, from_dt, to_dt)

SeqToSet(q) == { q[i] : i \in 1..Len(q) }

\* serial_map: the order ids of df numbered 1..N in ascending order
SerialOf(df, order_id) ==
    Cardinality({ r.order_id : r \in { x \in SeqToSet(df) : x.order_id <= order_id } })

\* one row of the output frame: the assignable columns, then the constants of
\* the template, every other column of the template blank
ExportRow(df, r, fields, defaults) ==
    [f \in SeqToSet(fields) |->
        IF f \in DOMAIN defaults THEN defaults[f]
        ELSE CASE f = "OrderSerial" -> Num(SerialOf(df, r.order_id))
               [] f = "ReferenceDate" -> Num(r.created_at \div DayLen)
               [] f = "CustomerNumber" -> Text(r.customer_number)
               [] f = "ItemCode" -> Text(r.item_code)
               [] f = "Quantity" -> Num(r.quantity)
               [] OTHER -> Blank]

IsPositiveRow(r) == r.quantity > 0

\* the columns admin_export fills from the ledger
Assignable == {"OrderSerial", "ReferenceDate", "CustomerNumber", "ItemCode", "Quantity"}

\* the output frame starts without rows and gets the rows of df with the
\* first assignable column of the template; a constant alone adds no row
OutRows(df, fields, defaults) ==
    IF SeqToSet(fields) \cap Assignable = {} THEN <<>>
    ELSE [i \in 1..Len(df) |-> ExportRow(df, df[i], fields, defaults)]

\* GET /admin/export.xlsx: the response and the export_state.json it leaves.
\* The body is the sheet (header, rows) and the frame df it was built from
\* (selected).
admin_export(sess, scope, from_d, to_d, db, state, template_file) ==
    LET last_ts == IF scope = "since_last" THEN state ELSE NoBound
        df0 == IF scope = "range" THEN _query_orders(db, from_d, to_d)
               ELSE IF scope = "since_last" /\ last_ts # NoBound
                    THEN _query_orders(db, last_ts, NoBound)
                    ELSE _query_orders(db, NoBound, NoBound)
        df == SelectSeq(df0, IsPositiveRow)
        tpl == load_export_template(template_file)
        table == [selected |-> df, header |-> tpl.fields,
                  rows |-> OutRows(df, tpl.fields, tpl.defaults)]
    IN  IF ~sess.is_admin
        THEN [state |-> state, resp |-> Response("admin_export", "forbidden")]
        ELSE IF scope = "range" /\ (from_d = NoBound \/ to_d = NoBound)
        THEN [state |-> state, resp |-> Response("admin_export", "bad_request")]
        ELSE IF df0 = <<>>
        THEN [state |-> state,
              resp |-> [Response("admin_export", "ok") EXCEPT
                           !.body = [header |-> <<>>, rows |-> <<>>, selected |-> <<>>]]]
        ELSE [state |-> IF scope \in {"all", "range", "since_last"}
                        THEN TsBound(SeqMax([i \in 1..Len(df) |-> df[i].created_at]))
                        ELSE state,
              resp |-> [Response("admin_export", "ok") EXCEPT !.body = table]]

\* POST /admin/reload
admin_reload(sess) ==
    IF ~sess.is_admin THEN Response("admin_reload", "forbidden")
    ELSE Response("admin_reload", "redirect")

(***************************************************************************)
(* Requests served one at a time (specification Spec): each action is one  *)
(* whole handler, from the session it loads to the session it saves.       *)
(***************************************************************************)
\* the quantity texts a form carries for a code: every text for k1, two for k9
TextsFor(code) == IF code = "k1" THEN QtyTexts ELSE { <<"0">>, <<"1">> }

\* the forms of update_cart: a qty_<code> text for each code of a subset
Forms ==
    UNION { { f \in [P -> QtyTexts] :
                \A k \in P : f[k] \in (IF Cardinality(P) > 1 THEN PairTexts ELSE QtyTexts)
                                      \cap TextsFor(k) } :
            P \in SUBSET Codes }

Passwords == {ADMIN_PASSWORD, "guess"}
Scopes == {"all", "range", "since_last", "other"}
ExportBounds ==
    {NoBound, BadBound} \cup { TsBound(t) : t \in 0..MaxClock }
        \cup { DateBound(d) : d \in 0..(MaxClock \div DayLen) }
\* the export requests of Spec: the three scopes, a range with and without bounds
SpecExports ==
    { <<sc, NoBound, NoBound>> : sc \in {"all", "range", "since_last"} }
        \cup { <<"range", TsBound(1), DateBound(1)>> }

\* the cart inputs of NextCart: every customer text, form and quantity text
FullInputs ==
    [customers |-> RawCustomers, forms |-> Forms, codes |-> Codes, texts |-> QtyTexts]

\* the forms of Spec: the carts they build, without the variety of texts
SpecForms ==
    { f \in Forms : \A k \in DOMAIN f : f[k] \in {<<"1">>, <<" ", "2">>} \/ DOMAIN f = {"k1"} }
        \ { f \in Forms : DOMAIN f = {"k1"} /\ f["k1"] \in {<<>>, <<"x">>} }

\* the cart inputs of Next: the first session sends SpecForms for every
\* customer, the second session fills the cart of one customer
CartInputs(s) ==
    IF s = "s1" THEN [customers |-> RawCustomers, forms |-> SpecForms, codes |-> Codes,
                      texts |-> {<<"0">>, <<"1">>, <<"-", "1">>, <<"x">>}]
    ELSE [customers |-> {<<"b">>}, forms |-> {[k \in {"k1"} |-> <<"1">>]},
          codes |-> {}, texts |-> {}]

\* the two requests a concurrent server may have in flight
Requests == {"r1", "r2"}
Idle == [pc |-> "idle"]
\* no write transaction is open
NoTxn == [owner |-> "none", orders |-> <<>>, order_lines |-> <<>>]

\* the last request served (session, customer_id as sent) and its response
Reply(s, customer_raw, resp) ==
    [sess |-> s, customer |-> customer_raw, op |-> resp.op, status |-> resp.status,
     order_id |-> resp.order_id, body |-> resp.body]

Init ==
    /\ session = [s \in Sessions |-> NewSession]
    /\ orders = <<>>
    /\ order_lines = <<>>
    /\ sqlite_seq = [orders |-> 0, order_lines |-> 0]
    /\ txn = NoTxn
    /\ inflight = [r \in Requests |-> Idle]
    /\ export_state = NoBound
    /\ items = ItemsUniverse
    /\ cust_items = {}
    /\ export_template = NoTemplate
    /\ clock = 0
    /\ last = Reply("none", <<>>, Response("none", "none"))
    /\ nreq = 0

Served(s, customer_raw, resp) ==
    /\ nreq < MaxReq
    /\ nreq' = nreq + 1
    /\ last' = Reply(s, customer_raw, resp)

UpdateCartRequest(s, customer_raw, form) ==
    LET r == update_cart(session[s], customer_raw, form, items)
    IN  /\ Served(s, customer_raw, r.resp)
        /\ session' = [session EXCEPT ![s] = r.sess]
        /\ UNCHANGED <<orders, order_lines, sqlite_seq, txn, inflight,
                       export_state, items, cust_items, export_template, clock>>

CartRemoveRequest(s, customer_raw, item_code) ==
    LET r == cart_remove(session[s], customer_raw, item_code)
    IN  /\ Served(s, customer_raw, r.resp)
        /\ session' = [session EXCEPT ![s] = r.sess]
        /\ UNCHANGED <<orders, order_lines, sqlite_seq, txn, inflight,
                       export_state, items, cust_items, export_template, clock>>

CartUpdateLineRequest(s, customer_raw, item_code, quantity) ==
    LET r == cart_update_line(session[s], customer_raw, item_code, quantity, items)
    IN  /\ Served(s, customer_raw, r.resp)
        /\ session' = [session EXCEPT ![s] = r.sess]
        /\ UNCHANGED <<orders, order_lines, sqlite_seq, txn, inflight,
                       export_state, items, cust_items, export_template, clock>>

SubmitOrderRequest(s, customer_raw, created_at) ==
    LET r == submit_order(session[s], customer_raw, created_at, Database)
        writes == SubmitCheck(session[s], customer_raw) = "write"
    IN  /\ writes => Len(orders) < MaxOrders
        /\ Served(s, customer_raw, r.resp)
        /\ session' = [session EXCEPT ![s] = r.sess]
        /\ orders' = r.db.orders
        /\ order_lines' = r.db.order_lines
        /\ sqlite_seq' = r.db.seq
        /\ clock' = IF writes THEN created_at ELSE clock
        /\ UNCHANGED <<txn, inflight, export_state, items, cust_items, export_template>>

AdminRequest(s, pwd) ==
    LET r == admin(session[s], pwd)
    IN  /\ Served(s, <<>>, r.resp)
        /\ session' = [session EXCEPT ![s] = r.sess]
        /\ UNCHANGED <<orders, order_lines, sqlite_seq, txn, inflight,
                       export_state, items, cust_items, export_template, clock>>

AdminExportRequest(s, scope, from_d, to_d) ==
    LET r == admin_export(session[s], scope, from_d, to_d, Database, export_state,
                         export_template)
    IN  /\ Served(s, <<>>, r.resp)
        /\ export_state' = r.state
        /\ UNCHANGED <<session, orders, order_lines, sqlite_seq, txn, inflight,
                       items, cust_items, export_template, clock>>

AdminReloadRequest(s) ==
    /\ Served(s, <<>>, admin_reload(session[s]))
    /\ UNCHANGED <<session, orders, order_lines, sqlite_seq, txn, inflight,
                   export_state, items, cust_items, export_template, clock>>

Next ==
    \/ \E s \in Sessions : \E c \in CartInputs(s).customers, f \in CartInputs(s).forms :
          UpdateCartRequest(s, c, f)
    \/ \E s \in Sessions : \E c \in CartInputs(s).customers, k \in CartInputs(s).codes :
          CartRemoveRequest(s, c, k)
    \/ \E s \in Sessions : \E c \in CartInputs(s).customers, k \in CartInputs(s).codes :
          \E q \in CartInputs(s).texts \cap TextsFor(k) : CartUpdateLineRequest(s, c, k, q)
    \/ \E s \in Sessions : \E c \in CartInputs(s).customers, t \in clock..MaxClock :
          SubmitOrderRequest(s, c, t)
    \/ \E s \in Sessions, p \in Passwords : AdminRequest(s, p)
    \/ \E s \in Sessions, e \in SpecExports : AdminExportRequest(s, e[1], e[2], e[3])
    \/ \E s \in Sessions : AdminReloadRequest(s)

Spec == Init /\ [][Next]_vars

(***************************************************************************)
(* Properties of the requests served one at a time                         *)
(***************************************************************************)
\* a request was served in this step
Step == nreq' = nreq + 1

\* the customer the last request named, trimmed
LastCustomer == Strip(last.customer)

LedgerUnchanged ==
    orders' = orders /\ order_lines' = order_lines /\ sqlite_seq' = sqlite_seq

CartsUnchanged == \A s \in Sessions : session'[s].cart = session[s].cart

IsPrefix(p, q) == Len(p) <= Len(q) /\ SubSeq(q, 1, Len(p)) = p

\* the (item code, quantity) pairs of the lines of one order
LinePairs(lines, order_id) ==
    { <<lines[i].item_code, lines[i].quantity>> :
        i \in { j \in 1..Len(lines) : lines[j].order_id = order_id } }

LineCount(lines, order_id) ==
    Cardinality({ j \in 1..Len(lines) : lines[j].order_id = order_id })

\* C2: the identifiers of the orders of the ledger are 1, 2, ..., N in the
\* order of their submission, and the identifier a successful submission
\* reports is the one of the order it wrote (the N-th).
C2_SerialRun ==
    /\ \A i \in 1..Len(orders) : orders[i].id = i
    /\ (last.op = "submit_order" /\ last.status = "saved") => last.order_id = Len(orders)

C2_Witness ==
    Len(orders) = 2 /\ last.op = "submit_order" /\ last.status = "saved"

NoPositiveLine(cart) == \A k \in DOMAIN cart : cart[k].qty <= 0

C4_Step ==
    (/\ Step
     /\ last'.op = "submit_order"
     /\ Strip(last'.customer) # <<>>
     /\ NoPositiveLine(session[last'.sess].cart[Strip(last'.customer)]))
    => (last'.status = "empty_cart" /\ LedgerUnchanged /\ CartsUnchanged)

\* C4: a submit_order for a customer whose cart has no entry of positive
\* quantity is rejected as an empty order and changes neither the ledger nor
\* any cart; and no order of the ledger is without lines.
C4_EmptyOrderRejected ==
    /\ [](\A i \in 1..Len(orders) : LineCount(order_lines, orders[i].id) >= 1)
    /\ [][C4_Step]_vars

C4_Witness ==
    /\ last.op = "submit_order" /\ last.status = "empty_cart"
    /\ Len(orders) = 1
    /\ \E c \in CustKeys : session[last.sess].cart[c] # EmptyCart

C5_Step ==
    (Step /\ last'.op = "submit_order") =>
        LET s == last'.sess
            c == Strip(last'.customer)
            before == session[s].cart[c]
            new == orders'[Len(orders')]
        IN  /\ (c # <<>> /\ before # EmptyCart) => last'.status = "saved"
            /\ last'.status = "saved" =>
                  /\ Len(orders') = Len(orders) + 1
                  /\ IsPrefix(orders, orders')
                  /\ IsPrefix(order_lines, order_lines')
                  /\ new.customer_number = c
                  /\ new.id = last'.order_id
                  /\ \A i \in 1..Len(orders) : orders[i].id # new.id
                  /\ LinePairs(order_lines', new.id)
                        = { <<k, before[k].qty>> : k \in DOMAIN before }
                  /\ LineCount(order_lines', new.id) = Cardinality(DOMAIN before)
                  /\ Len(order_lines') = Len(order_lines) + Cardinality(DOMAIN before)
                  /\ session'[s].cart[c] = EmptyCart
                  /\ \A s2 \in Sessions, c2 \in CustKeys :
                        (s2 # s \/ c2 # c) => session'[s2].cart[c2] = session[s2].cart[c2]

\* C5: a successful submit_order for customer C adds exactly one order, of
\* customer C, whose lines are exactly the (item code, quantity) pairs of C's
\* cart before the request; it empties C's cart and leaves every other cart
\* as it was.
C5_SubmitTransfersCart == [][C5_Step]_vars

C5_Witness ==
    /\ last.op = "submit_order" /\ last.status = "saved"
    /\ LinePairs(order_lines, last.order_id) = { <<"k1", 2>>, <<"k9", 1>> }
    /\ \E c \in CustKeys : session[last.sess].cart[c] # EmptyCart

\* C6: the ledger is append-only: whatever request is served, every order and
\* every order line persisted before it is still there after it, with the same
\* identifier, customer number, creation timestamp, item code and quantity.
C6_LedgerAppendOnly ==
    [][IsPrefix(orders, orders') /\ IsPrefix(order_lines, order_lines')]_vars

C6_Witness ==
    /\ last.op = "admin_export" /\ last.status = "ok"
    /\ Len(orders) >= 1 /\ Len(order_lines) >= 1

C8_Step ==
    (Step /\ last'.op \in {"update_cart", "submit_order"} /\ Strip(last'.customer) = <<>>)
    => (last'.status = "no_customer" /\ CartsUnchanged /\ LedgerUnchanged)

\* C8: an update_cart or submit_order whose customer identifier is empty
\* after trimming is rejected with the "no customer" message and leaves the
\* carts of every session and the ledger as they were.
C8_NoCustomerRejected == [][C8_Step]_vars

C8_Witness ==
    /\ last.op = "submit_order" /\ last.status = "no_customer"
    /\ session[last.sess].cart[<<>>] # EmptyCart
    /\ Len(orders) >= 1

(***************************************************************************)
(* The cart handlers alone (specification SpecCart): one session sends     *)
(* every customer text, form and quantity text of the model.               *)
(***************************************************************************)
NextCart ==
    \/ \E c \in FullInputs.customers, f \in FullInputs.forms :
          UpdateCartRequest("s1", c, f)
    \/ \E c \in FullInputs.customers, k \in FullInputs.codes :
          CartRemoveRequest("s1", c, k)
    \/ \E c \in FullInputs.customers, k \in FullInputs.codes :
          \E q \in FullInputs.texts \cap TextsFor(k) : CartUpdateLineRequest("s1", c, k, q)

SpecCart == Init /\ [][NextCart]_vars

\* what the claims expect of a quantity text, stated without float(): the
\* quantity it asks for, 0 for a text that is empty, unparsable or not positive
ExpectedQty(text) ==
    CASE text = <<"1">> -> 1
      [] text = <<" ", "2">> -> 2
      [] OTHER -> 0

PositiveTexts == { q \in QtyTexts : ExpectedQty(q) > 0 }
NonPositiveTexts == { q \in QtyTexts : ExpectedQty(q) = 0 }

SameEntry(a, b, k) ==
    /\ (k \in DOMAIN a) = (k \in DOMAIN b)
    /\ (k \in DOMAIN a) => a[k] = b[k]

AllCodes == { CodeOrder[i] : i \in 1..Len(CodeOrder) }

\* the carts of sess2 are those of sess1 except for the codes P of customer c
FrameHolds(sess1, sess2, c, P) ==
    \A c2 \in CustKeys, k \in AllCodes :
        (c2 # c \/ k \notin P) => SameEntry(sess1.cart[c2], sess2.cart[c2], k)

OneField(k, q) == [x \in {k} |-> q]

C1_Disjoint ==
    \A c \in RawCustomers, k1 \in Codes, q1 \in QtyTexts, q2 \in QtyTexts :
      \A k2 \in Codes \ {k1} :
        LET r1 == update_cart(session["s1"], c, OneField(k1, q1), items).sess
            r2 == update_cart(r1, c, OneField(k2, q2), items).sess
            cart == r2.cart[Strip(c)]
            Latest(k, q) == IF ExpectedQty(q) > 0
                            THEN k \in DOMAIN cart /\ cart[k].qty = ExpectedQty(q)
                            ELSE k \notin DOMAIN cart
        IN  Strip(c) # <<>> =>
                /\ Latest(k1, q1)
                /\ Latest(k2, q2)
                /\ FrameHolds(session["s1"], r2, Strip(c), {k1, k2})

\* C1: in every reachable cart state, an update_cart for customer C with the
\* codes P leaves every entry of C's cart outside P, and every other
\* customer's cart, as it was; and two submissions on disjoint codes leave,
\* for each code they carry, the latest positive quantity (no entry for a
\* quantity that is not positive).
C1_PartialSubmissionFrame ==
    /\ \A c \in RawCustomers, f \in Forms :
          FrameHolds(session["s1"], update_cart(session["s1"], c, f, items).sess,
                     Strip(c), DOMAIN f)
    /\ C1_Disjoint

C1_Witness ==
    /\ last.op = "update_cart" /\ Strip(last.customer) = <<"a">>
    /\ DOMAIN session["s1"].cart[<<"a">>] = {"k1", "k9"}
    /\ session["s1"].cart[<<"a">>]["k1"].qty = 2
    /\ session["s1"].cart[<<"b">>] # EmptyCart

\* the two handlers that take a quantity text, on one code
SetQuantity(h, sess, c, k, q) ==
    IF h = "update_cart" THEN update_cart(sess, c, OneField(k, q), items).sess
    ELSE cart_update_line(sess, c, k, q, items).sess

\* C7: in update_cart (customer selected) and cart_update_line, a quantity
\* text that is empty, unparsable or not positive removes the code from the
\* customer's cart and nothing else, changes nothing when the code is absent,
\* has the same effect applied twice; a positive quantity sent afterwards
\* stores the code with that quantity.
C7_NonPositiveRemoves ==
    \A h \in {"update_cart", "cart_update_line"}, c \in RawCustomers, k \in Codes,
       q \in NonPositiveTexts :
        LET sess == session["s1"]
            r1 == SetQuantity(h, sess, c, k, q)
        IN  (h = "update_cart" => Strip(c) # <<>>) =>
                /\ k \notin DOMAIN r1.cart[Strip(c)]
                /\ FrameHolds(sess, r1, Strip(c), {k})
                /\ (k \notin DOMAIN sess.cart[Strip(c)]) => r1 = sess
                /\ SetQuantity(h, r1, c, k, q) = r1
                /\ \A q2 \in PositiveTexts :
                      LET r2 == SetQuantity(h, r1, c, k, q2).cart[Strip(c)]
                      IN  k \in DOMAIN r2 /\ r2[k].qty = ExpectedQty(q2)

C7_Witness ==
    /\ last.op = "cart_update_line"
    /\ "k1" \notin DOMAIN session["s1"].cart[Strip(last.customer)]
    /\ "k9" \in DOMAIN session["s1"].cart[Strip(last.customer)]

(***************************************************************************)
(* Requests served concurrently (specification SpecConc): two requests,    *)
(* each a sequence of steps.  A request loads the session from its cookie  *)
(* when it arrives and the browser keeps the session of the response it    *)
(* receives last.  submit_order writes through its own connection: the     *)
(* first INSERT opens the write transaction, which no other connection     *)
(* can open until the commit.                                              *)
(***************************************************************************)
\* the sessions the concurrent requests start from: carts built by update_cart
StartSession(customer_raw, form) ==
    update_cart(NewSession, customer_raw, form, ItemsUniverse).sess

ConcStarts ==
    { [s \in Sessions |-> IF s = "s1" THEN a ELSE b] :
        a \in { NewSession, StartSession(<<" ", "a">>, OneField("k1", <<"1">>)) },
        b \in { StartSession(<<"b">>, [k \in Codes |-> <<"1">>]) } }

\* the requests that arrive: op, customer_id and the fields sent
ConcRequests ==
    { [op |-> "update_cart", customer |-> <<" ", "a">>, form |-> f] :
        f \in { OneField("k1", <<" ", "2">>), OneField("k9", <<"1">>),
                OneField("k1", <<"0">>) } }
    \cup { [op |-> "cart_update_line", customer |-> <<" ", "a">>,
            form |-> OneField("k9", <<"1">>)],
           [op |-> "cart_remove", customer |-> <<" ", "a">>,
            form |-> OneField("k1", <<>>)] }
    \cup { [op |-> "submit_order", customer |-> c, form |-> EmptyCart] :
            c \in {<<" ", "a">>, <<"b">>} }

CartOps == {"update_cart", "cart_update_line", "cart_remove"}

InitConc ==
    /\ session \in ConcStarts
    /\ orders = <<>>
    /\ order_lines = <<>>
    /\ sqlite_seq = [orders |-> 0, order_lines |-> 0]
    /\ txn = NoTxn
    /\ inflight = [r \in Requests |-> Idle]
    /\ export_state = NoBound
    /\ items = ItemsUniverse
    /\ cust_items = {}
    /\ export_template = NoTemplate
    /\ clock = 0
    /\ last = Reply("none", <<>>, Response("none", "none"))
    /\ nreq = 0

\* a cart handler on the session a request loaded
CartHandler(q, sess, items_df) ==
    LET k == CHOOSE x \in DOMAIN q.form : TRUE
    IN  CASE q.op = "update_cart" -> update_cart(sess, q.customer, q.form, items_df)
          [] q.op = "cart_update_line" ->
                cart_update_line(sess, q.customer, k, q.form[k], items_df)
          [] q.op = "cart_remove" -> cart_remove(sess, q.customer, k)

\* the request arrives: Flask opens the session from the cookie
Arrive(r, s, q) ==
    /\ inflight[r].pc = "idle"
    /\ inflight' = [inflight EXCEPT ![r] =
           [pc |-> "loaded", op |-> q.op, sess |-> s, customer |-> q.customer,
            form |-> q.form, loaded |-> session[s], work |-> session[s],
            created_at |-> 0, order_id |-> 0, status |-> "", arrival |-> nreq + 1]]
    /\ nreq' = nreq + 1
    /\ UNCHANGED <<session, orders, order_lines, sqlite_seq, txn, export_state,
                   items, cust_items, export_template, clock, last>>

\* the response of a request: the browser stores the session it carries
Respond(r, sess, status, order_id) ==
    /\ session' = [session EXCEPT ![inflight[r].sess] = sess]
    /\ last' = Reply(inflight[r].sess, inflight[r].customer,
                     [Response(inflight[r].op, status) EXCEPT !.order_id = order_id])
    /\ inflight' = [inflight EXCEPT ![r].pc = "done", ![r].work = sess,
                                    ![r].status = status]

\* update_cart, cart_update_line, cart_remove: the handler runs on the
\* session it loaded and the response saves that session
FinishCart(r) ==
    /\ inflight[r].pc = "loaded"
    /\ inflight[r].op \in CartOps
    /\ LET res == CartHandler(inflight[r], inflight[r].work, items)
       IN  Respond(r, res.sess, res.resp.status, 0)
    /\ UNCHANGED <<orders, order_lines, sqlite_seq, txn, export_state,
                   items, cust_items, export_template, clock, nreq>>

\* submit_order up to created_at = now_iso()
SubmitBegin(r, t) ==
    /\ inflight[r].pc = "loaded"
    /\ inflight[r].op = "submit_order"
    /\ LET check == SubmitCheck(inflight[r].work, inflight[r].customer)
       IN  IF check = "write"
           THEN /\ inflight' = [inflight EXCEPT ![r].pc = "insert", ![r].created_at = t]
                /\ clock' = t
           ELSE /\ inflight' = [inflight EXCEPT ![r].pc = "respond", ![r].status = check]
                /\ clock' = clock
    /\ UNCHANGED <<session, orders, order_lines, sqlite_seq, txn, export_state,
                   items, cust_items, export_template, last, nreq>>

\* mutant of WriteLockFree: a connection writes whatever the others do
WriteLockIgnored(t) == TRUE

\* SQLite lets one connection at a time hold the write transaction
WriteLockFree(t) == t.owner = "none"

\* INSERT INTO orders: opens the write transaction; order_id = cur.lastrowid
SubmitInsertOrder(r) ==
    /\ inflight[r].pc = "insert"
    /\ WriteLockFree(txn)
    /\ LET order_id == NextRowId(sqlite_seq.orders)
       IN  /\ txn' = [owner |-> r,
                      orders |-> <<OrderRow(order_id, Strip(inflight[r].customer),
                                            inflight[r].created_at)>>,
                      order_lines |-> <<>>]
           /\ inflight' = [inflight EXCEPT ![r].pc = "lines", ![r].order_id = order_id]
    /\ UNCHANGED <<session, orders, order_lines, sqlite_seq, export_state,
                   items, cust_items, export_template, clock, last, nreq>>

\* INSERT INTO orders while another connection holds the write transaction:
\* sqlite3.OperationalError (database is locked) once the busy timeout is over
SubmitBusy(r) ==
    /\ inflight[r].pc = "insert"
    /\ ~WriteLockFree(txn)
    /\ inflight' = [inflight EXCEPT ![r].pc = "respond", ![r].status = "error"]
    /\ UNCHANGED <<session, orders, order_lines, sqlite_seq, txn, export_state,
                   items, cust_items, export_template, clock, last, nreq>>

\* the loop of INSERT INTO order_lines, inside the write transaction
SubmitInsertLines(r) ==
    /\ inflight[r].pc = "lines"
    /\ txn' = [txn EXCEPT !.order_lines =
                  CartLines(get_customer_cart(inflight[r].work, Strip(inflight[r].customer)),
                            CodeOrder, inflight[r].order_id, sqlite_seq.order_lines)]
    /\ inflight' = [inflight EXCEPT ![r].pc = "commit"]
    /\ UNCHANGED <<session, orders, order_lines, sqlite_seq, export_state,
                   items, cust_items, export_template, clock, last, nreq>>

\* con.commit(), then set_customer_cart(customer_id, {})
SubmitCommit(r) ==
    /\ inflight[r].pc = "commit"
    /\ orders' = InsertOrder(orders, txn.orders[1])
    /\ order_lines' = InsertLines(order_lines, txn.order_lines)
    /\ sqlite_seq' = [orders |-> txn.orders[1].id,
                      order_lines |-> sqlite_seq.order_lines + Len(txn.order_lines)]
    /\ txn' = NoTxn
    /\ inflight' = [inflight EXCEPT
           ![r].pc = "respond", ![r].status = "saved",
           ![r].work = set_customer_cart(inflight[r].work, Strip(inflight[r].customer),
                                         EmptyCart)]
    /\ UNCHANGED <<session, export_state, items, cust_items, export_template, clock, last, nreq>>

\* the response of submit_order; after the error nothing changed the session
\* and no cookie is sent
SubmitRespond(r) ==
    /\ inflight[r].pc = "respond"
    /\ Respond(r, IF inflight[r].status = "error" THEN session[inflight[r].sess]
                  ELSE inflight[r].work,
               inflight[r].status, inflight[r].order_id)
    /\ UNCHANGED <<orders, order_lines, sqlite_seq, txn, export_state,
                   items, cust_items, export_template, clock, nreq>>

NextConc ==
    \/ \E r \in Requests, s \in Sessions, q \in ConcRequests : Arrive(r, s, q)
    \/ \E r \in Requests : FinishCart(r)
    \/ \E r \in Requests, t \in clock..MaxClock : SubmitBegin(r, t)
    \/ \E r \in Requests : SubmitInsertOrder(r)
    \/ \E r \in Requests : SubmitBusy(r)
    \/ \E r \in Requests : SubmitInsertLines(r)
    \/ \E r \in Requests : SubmitCommit(r)
    \/ \E r \in Requests : SubmitRespond(r)

SpecConc == InitConc /\ [][NextConc]_vars

\* a submit_order request whose order is committed
Saved(r) ==
    /\ inflight[r].pc \in {"respond", "done"}
    /\ inflight[r].op = "submit_order"
    /\ inflight[r].status = "saved"

\* the (item_code, quantity) pairs of the cart a request loaded for its customer
LoadedPairs(r) ==
    LET cart == get_customer_cart(inflight[r].loaded, Strip(inflight[r].customer))
    IN  { <<k, cart[k].qty>> : k \in DOMAIN cart }

\* C3: two submit_order requests served concurrently never get the same order
\* id, and every persisted line is attached to the order of the request that
\* created it: the order with the id a request was given carries that
\* request's customer, timestamp and exactly the pairs of its cart, and the
\* ledger holds no other line.
C3_ConcurrentSubmitsDistinct ==
    /\ \A r1 \in Requests : \A r2 \in Requests \ {r1} :
          Saved(r1) /\ Saved(r2) => inflight[r1].order_id # inflight[r2].order_id
    /\ \A r \in Requests : Saved(r) =>
          /\ \E i \in 1..Len(orders) :
                /\ orders[i].id = inflight[r].order_id
                /\ orders[i].customer_number = Strip(inflight[r].customer)
                /\ orders[i].created_at = inflight[r].created_at
          /\ LinePairs(order_lines, inflight[r].order_id) = LoadedPairs(r)
          /\ LineCount(order_lines, inflight[r].order_id) = Cardinality(LoadedPairs(r))
    /\ \A j \in 1..Len(order_lines) :
          \E r \in Requests : Saved(r) /\ order_lines[j].order_id = inflight[r].order_id

\* two orders of different sessions, the request that arrived second
\* committed first
C3_Witness ==
    \E r1 \in Requests : \E r2 \in Requests \ {r1} :
        /\ Saved(r1) /\ Saved(r2)
        /\ inflight[r1].pc = "done" /\ inflight[r2].pc = "done"
        /\ inflight[r1].sess # inflight[r2].sess
        /\ inflight[r1].arrival < inflight[r2].arrival
        /\ inflight[r2].order_id < inflight[r1].order_id
        /\ Len(order_lines) = 3

\* a finished update_cart or cart_update_line request
CartDone(r) ==
    /\ inflight[r].pc = "done"
    /\ inflight[r].op \in {"update_cart", "cart_update_line"}

\* C9: two cart updates of the same customer in the same session, served
\* concurrently, leave the cart that applying them one after the other in
\* arrival order leaves: the update of neither is dropped.
C9_UpdatesAppliedInArrivalOrder ==
    \A r1 \in Requests : \A r2 \in Requests \ {r1} :
        ( /\ CartDone(r1) /\ CartDone(r2)
          /\ inflight[r1].sess = inflight[r2].sess
          /\ Strip(inflight[r1].customer) = Strip(inflight[r2].customer)
          /\ inflight[r1].arrival < inflight[r2].arrival )
        => session[inflight[r1].sess].cart =
             CartHandler(inflight[r2],
                         CartHandler(inflight[r1], inflight[r1].loaded, items).sess,
                         items).sess.cart

(***************************************************************************)
(* The order page (specification SpecForm): order_form filters the catalog *)
(* for the selected customer and computes the values the three facet       *)
(* dropdowns offer.                                                        *)
(***************************************************************************)
\* the characters of the codes and names of the catalog
Chars(str) ==
    CASE str = "k1" -> <<"k", "1">> [] str = "k2" -> <<"k", "2">>
      [] str = "k3" -> <<"k", "3">> [] str = "n1" -> <<"n", "1">>
      [] str = "n2" -> <<"n", "2">> [] str = "n3" -> <<"n", "3">>
      [] OTHER -> <<str>>

LowerChar(ch) ==
    CASE ch = "A" -> "a" [] ch = "B" -> "b" [] ch = "K" -> "k"
      [] ch = "N" -> "n" [] OTHER -> ch

\* str.lower()
Lower(t) == [i \in 1..Len(t) |-> LowerChar(t[i])]

\* str.contains(needle), needle not empty
Contains(hay, needle) ==
    \E i \in 0..(Len(hay) - Len(needle)) : SubSeq(hay, i + 1, i + Len(needle)) = needle

\* a column value equals the text of a URL parameter
FieldEq(field, text) == text = Chars(field)

\* the order of the strings of the catalog
TextOrder == <<"A", "B", "P", "Q", "X", "Y", "n1", "n2", "n3">>
TextRank(str) == CHOOSE i \in 1..Len(TextOrder) : TextOrder[i] = str

\* sorted(values)
RECURSIVE SortedList(_)
SortedList(S) ==
    IF S = {} THEN <<>>
    ELSE LET m == CHOOSE x \in S : \A y \in S : TextRank(x) <= TextRank(y)
         IN  <<m>> \o SortedList(S \ {m})

ItemKey(it) == <<TextRank(it.Domain), TextRank(it.Category),
                 TextRank(it.SubCategory), TextRank(it.ItemName)>>

\* lexicographic order of two sort keys
KeyLeq(a, b) ==
    \/ a = b
    \/ \E i \in 1..Len(a) : a[i] < b[i] /\ \A j \in 1..(i - 1) : a[j] = b[j]

\* sort_values(["Domain", "Category", "SubCategory", "ItemName"])
RECURSIVE SortItems(_)
SortItems(S) ==
    IF S = {} THEN <<>>
    ELSE LET m == CHOOSE x \in S : \A y \in S : KeyLeq(ItemKey(x), ItemKey(y))
         IN  <<m>> \o SortItems(S \ {m})

\* mutant of BaseItems: a customer without entitlement rows gets the catalog
BaseItemsOpen(customer_id, show_set, items_df, cust_items_df) ==
    IF show_set = "customer"
          /\ \E x \in cust_items_df : x.CustomerNumber = customer_id
    THEN { it \in items_df :
             \E x \in cust_items_df :
                 x.CustomerNumber = customer_id /\ x.ItemCode = it.ItemCode }
    ELSE items_df

\* the items of the selected scope: the customer's entitlement or the catalog
BaseItems(customer_id, show_set, items_df, cust_items_df) ==
    IF show_set = "customer"
    THEN LET allowed == { e.ItemCode : e \in { x \in cust_items_df :
                                               x.CustomerNumber = customer_id } }
         IN  { it \in items_df : it.ItemCode \in allowed }
    ELSE items_df

\* the filters domain, category, subcategory and q applied in turn
FilterItems(base, domain, category, subcategory, q) ==
    LET by_domain == IF domain # <<>>
                     THEN { it \in base : FieldEq(it.Domain, domain) } ELSE base
        by_category == IF category # <<>>
                       THEN { it \in by_domain : FieldEq(it.Category, category) }
                       ELSE by_domain
        by_sub == IF subcategory # <<>>
                  THEN { it \in by_category : FieldEq(it.SubCategory, subcategory) }
                  ELSE by_category
    IN  IF q # <<>>
        THEN { it \in by_sub : \/ Contains(Lower(Chars(it.ItemName)), q)
                               \/ Contains(Lower(Chars(it.ItemCode)), q) }
        ELSE by_sub

\* mutant of ContextItems: the facets always come from the filtered items
ContextItemsFiltered(customer_id, show_set, items_df, filtered_items) ==
    filtered_items

\* the items the facet values are read from
ContextItems(customer_id, show_set, items_df, filtered_items) ==
    IF show_set = "all" \/ customer_id = <<>> THEN items_df ELSE filtered_items

order_form(sess, args, items_df, cust_items_df) ==
    LET customer_id == Strip(args.customer_id)
        domain == Strip(args.domain)
        category == Strip(args.category)
        subcategory == Strip(args.subcategory)
        q == Lower(Strip(args.q))
        filtered_items ==
            IF customer_id # <<>>
            THEN FilterItems(BaseItems(customer_id, args.show_set, items_df, cust_items_df),
                             domain, category, subcategory, q)
            ELSE {}
        context_items == ContextItems(customer_id, args.show_set, items_df, filtered_items)
    IN  [customer_id |-> customer_id, show_set |-> args.show_set,
         domain_selected |-> domain, category_selected |-> category,
         subcategory_selected |-> subcategory, q |-> args.q,
         items |-> SortItems(filtered_items),
         domains |-> SortedList({ it.Domain : it \in context_items }),
         categories |-> SortedList({ it.Category : it \in context_items }),
         subcategories |-> SortedList({ it.SubCategory : it \in context_items }),
         customer_cart |-> IF customer_id # <<>>
                           THEN get_customer_cart(sess, customer_id) ELSE EmptyCart]

\* the entitlement rows the customer item files may hold; k7 is not in the catalog
EntitlementUniverse ==
    { [CustomerNumber |-> <<"a">>, ItemCode |-> "k1"],
      [CustomerNumber |-> <<"a">>, ItemCode |-> "k3"],
      [CustomerNumber |-> <<"a">>, ItemCode |-> "k7"],
      [CustomerNumber |-> <<"b">>, ItemCode |-> "k2"] }

\* what load_customer_items() may return: nothing (no directory, no file),
\* rows of another customer only, or rows of customer a as well
EntitlementTables ==
    { {},
      { e \in EntitlementUniverse : e.CustomerNumber = <<"b">> },
      { e \in EntitlementUniverse : e.ItemCode \in {"k1", "k2"} },
      EntitlementUniverse }

\* the URL parameters of the order page
FormArgs ==
    [customer_id : {<<" ">>, <<" ", "a">>},
     show_set : {"customer", "all"},
     q : {<<>>, <<" ", "K">>, <<"a">>},
     domain : {<<>>, <<" ", "A">>, <<"B">>},
     category : {<<>>, <<"X">>, <<"Y">>},
     subcategory : {<<>>, <<"Q">>}]

InitForm ==
    /\ session = [s \in Sessions |-> NewSession]
    /\ orders = <<>>
    /\ order_lines = <<>>
    /\ sqlite_seq = [orders |-> 0, order_lines |-> 0]
    /\ txn = NoTxn
    /\ inflight = [r \in Requests |-> Idle]
    /\ export_state = NoBound
    /\ items \in SUBSET ItemsUniverse
    /\ cust_items \in EntitlementTables
    /\ export_template = NoTemplate
    /\ clock = 0
    /\ last = Reply("none", <<>>, Response("none", "none"))
    /\ nreq = 0

\* GET /: the page is rendered, nothing is written
OrderFormRequest(s, args) ==
    /\ last' = [Reply(s, args.customer_id, Response("order_form", "ok"))
                  EXCEPT !.body = order_form(session[s], args, items, cust_items)]
    /\ UNCHANGED <<session, orders, order_lines, sqlite_seq, txn, inflight,
                   export_state, items, cust_items, export_template, clock, nreq>>

NextForm == \E args \in FormArgs : OrderFormRequest("s1", args)

SpecForm == InitForm /\ [][NextForm]_vars

\* the values of a facet list
ListValues(list) == { list[i] : i \in 1..Len(list) }

\* the page shown for a selected customer
PageShown == last.op = "order_form" /\ last.body.customer_id # <<>>

\* the base items of the page that match its selected domain and category
Upstream(page, with_category) ==
    { it \in BaseItems(page.customer_id, page.show_set, items, cust_items) :
        /\ page.domain_selected # <<>> => FieldEq(it.Domain, page.domain_selected)
        /\ (with_category /\ page.category_selected # <<>>)
              => FieldEq(it.Category, page.category_selected) }

\* C10: for either scope, once a domain is selected the categories offered
\* occur among the base items of that domain, and the subcategories offered
\* occur among the base items of the selected domain and category.
C10_FacetCascade ==
    (PageShown /\ last.body.domain_selected # <<>>) =>
        /\ ListValues(last.body.categories)
              \subseteq { it.Category : it \in Upstream(last.body, FALSE) }
        /\ ListValues(last.body.subcategories)
              \subseteq { it.SubCategory : it \in Upstream(last.body, TRUE) }

(***************************************************************************)
(* Exports (specification SpecExport): an admin session with two filled    *)
(* carts submits orders and exports them, with every kind of range bound   *)
(* and with or without an export_template.xlsx.                            *)
(***************************************************************************)
\* the sheets export_template.xlsx may hold
Templates ==
    { NoTemplate,
      [exists |-> TRUE, has_columns |-> FALSE, rows |-> <<>>],
      TemplateFile(<<[Field |-> "DocType", DefaultValue |-> "ZSTD"]>>),
      TemplateFile(<<[Field |-> "OrderSerial", DefaultValue |-> ""],
                     [Field |-> "CustomerNumber", DefaultValue |-> ""],
                     [Field |-> "ItemCode", DefaultValue |-> ""],
                     [Field |-> "Quantity", DefaultValue |-> ""],
                     [Field |-> "DocType", DefaultValue |-> "ZSTD"],
                     [Field |-> "Remark", DefaultValue |-> ""]>>) }

\* the admin session: two carts filled by update_cart (customer a added k9
\* first, then k1), then POST /admin
ExportSession ==
    LET a9 == update_cart(NewSession, <<" ", "a">>, OneField("k9", <<" ", "2">>),
                          ItemsUniverse).sess
        a == update_cart(a9, <<" ", "a">>, OneField("k1", <<"1">>), ItemsUniverse).sess
        b == update_cart(a, <<"b">>, OneField("k1", <<"1">>), ItemsUniverse).sess
    IN  admin(b, ADMIN_PASSWORD).sess

\* the export requests: scope, from, to
ExportRequests ==
    { <<sc, NoBound, NoBound>> : sc \in {"all", "range", "since_last", "other"} }
        \cup { <<"range", TsBound(t1), TsBound(t2)>> : t1, t2 \in 0..MaxClock }
        \cup { <<"range", DateBound(d), DateBound(d)>> : d \in 0..(MaxClock \div DayLen) }
        \cup { <<"range", BadBound, TsBound(MaxClock)>> }

InitExport ==
    /\ session = [s \in Sessions |-> IF s = "s1" THEN ExportSession ELSE NewSession]
    /\ orders = <<>>
    /\ order_lines = <<>>
    /\ sqlite_seq = [orders |-> 0, order_lines |-> 0]
    /\ txn = NoTxn
    /\ inflight = [r \in Requests |-> Idle]
    /\ export_state = NoBound
    /\ items = ItemsUniverse
    /\ cust_items = {}
    /\ export_template \in Templates
    /\ clock = 0
    /\ last = Reply("none", <<>>, Response("none", "none"))
    /\ nreq = 0

NextExport ==
    \/ \E c \in {<<" ", "a">>, <<"b">>}, t \in clock..MaxClock :
          SubmitOrderRequest("s1", c, t)
    \/ \E e \in ExportRequests : AdminExportRequest("s1", e[1], e[2], e[3])
    \/ UpdateCartRequest("s1", <<" ", "a">>, OneField("k9", <<"1">>))

SpecExport == InitExport /\ [][NextExport]_vars

\* the first and the last instant a range bound stands for
BoundFirst(b) == IF b.kind = "date" THEN b.v * DayLen ELSE b.v
BoundLast(b) == IF b.kind = "date" THEN b.v * DayLen + DayLen - 1 ELSE b.v

\* the ledger lines of the orders created between two instants, as
\* (order id, item code, quantity)
LinesBetween(lo, hi) ==
    { <<order_lines[j].order_id, order_lines[j].item_code, order_lines[j].quantity>> :
        j \in { x \in 1..Len(order_lines) :
                  \E i \in 1..Len(orders) :
                      /\ orders[i].id = order_lines[x].order_id
                      /\ lo <= orders[i].created_at
                      /\ orders[i].created_at <= hi } }

\* the lines an export selected, as (order id, item code, quantity)
SelectedLines(sel) ==
    { <<sel[i].order_id, sel[i].item_code, sel[i].quantity>> : i \in 1..Len(sel) }

\* C11: a range export with bounds from and to, each a timestamp or a
\* calendar date, selects exactly the lines of the orders created from the
\* first instant of from to the last instant of to, once each.
C11_RangeInclusive ==
    \A e \in ExportRequests :
        (e[1] = "range" /\ e[2].kind \in {"ts", "date"} /\ e[3].kind \in {"ts", "date"}) =>
            LET r == admin_export(session["s1"], e[1], e[2], e[3], Database,
                                  export_state, export_template).resp
                expected == LinesBetween(BoundFirst(e[2]), BoundLast(e[3]))
            IN  /\ r.status = "ok"
                /\ SelectedLines(r.body.selected) = expected
                /\ Len(r.body.selected) = Cardinality(expected)

\* C12: an export that selects nothing answers with a sheet of no data row
\* whose header is the target field list.
C12_EmptyExportHeader ==
    (last.op = "admin_export" /\ last.status = "ok" /\ last.body.selected = <<>>) =>
        /\ last.body.rows = <<>>
        /\ last.body.header = load_export_template(export_template).fields

\* the constant configured for a target field, if any
ConfiguredConstants ==
    IF export_template.exists /\ export_template.has_columns
    THEN { <<export_template.rows[i].Field, export_template.rows[i].DefaultValue>> :
             i \in { x \in 1..Len(export_template.rows) :
                       export_template.rows[x].DefaultValue # "" } }
    ELSE { <<f, DEFAULT_EXPORT_FIXED[f]>> : f \in DOMAIN DEFAULT_EXPORT_FIXED }

\* the cell the claim expects in column f for the selected line r
ExpectedCell(sel, r, f) ==
    CASE f = "OrderSerial" ->
            [num |-> Cardinality({ sel[i].order_id : i \in { x \in 1..Len(sel) :
                                       sel[x].order_id <= r.order_id } })]
      [] f = "ReferenceDate" -> [num |-> r.created_at \div DayLen]
      [] f = "CustomerNumber" -> [text |-> r.customer_number]
      [] f = "ItemCode" -> [text |-> r.item_code]
      [] f = "Quantity" -> [num |-> r.quantity]
      [] OTHER -> IF \E c \in ConfiguredConstants : c[1] = f
                  THEN [text |-> (CHOOSE c \in ConfiguredConstants : c[1] = f)[2]]
                  ELSE [blank |-> TRUE]

\* an export that selected at least one line
ExportShown == last.op = "admin_export" /\ last.status = "ok" /\ last.body.selected # <<>>

\* C13: the sheet of a non-empty export has the target field list as its
\* header, one row per selected line, and in every row the five ledger
\* fields from the line, the configured constants, and every other target
\* field blank.
C13_ExportColumns ==
    ExportShown =>
        LET fields == load_export_template(export_template).fields
            sel == last.body.selected
            rows == last.body.rows
        IN  /\ last.body.header = fields
            /\ Len(rows) = Len(sel)
            /\ \A i \in 1..Len(rows) :
                  /\ DOMAIN rows[i] = { fields[j] : j \in 1..Len(fields) }
                  /\ \A f \in DOMAIN rows[i] : rows[i][f] = ExpectedCell(sel, sel[i], f)

\* the customer number, item code and quantity a sheet row carries
RowCarries(row, customer, code, qty) ==
    /\ {"CustomerNumber", "ItemCode", "Quantity"} \subseteq DOMAIN row
    /\ row["CustomerNumber"] = [text |-> customer]
    /\ row["ItemCode"] = [text |-> code]
    /\ row["Quantity"] = [num |-> qty]

\* the customer number of the order a ledger line belongs to
CustomerOfLine(line) ==
    (CHOOSE o \in { orders[i] : i \in 1..Len(orders) } : o.id = line.order_id).customer_number

\* C14: the sheet of a scope=all export has one row for every line of every
\* persisted order, carrying the order's customer number and the line's item
\* code and quantity, and no other row.
C14_RoundTrip ==
    LET rows == admin_export(session["s1"], "all", NoBound, NoBound, Database,
                             export_state, export_template).resp.body.rows
    IN  /\ Len(rows) = Len(order_lines)
        /\ \A j \in 1..Len(order_lines) :
              LET line == order_lines[j]
                  same == { x \in 1..Len(order_lines) :
                              /\ order_lines[x].item_code = line.item_code
                              /\ order_lines[x].quantity = line.quantity
                              /\ CustomerOfLine(order_lines[x]) = CustomerOfLine(line) }
              IN  Cardinality({ i \in 1..Len(rows) :
                                  RowCarries(rows[i], CustomerOfLine(line),
                                             line.item_code, line.quantity) })
                    = Cardinality(same)

\* item codes in ascending order
CodeBefore(c1, c2) ==
    LET rank == [k1 |-> 1, k2 |-> 2, k3 |-> 3, k9 |-> 4]
    IN  rank[c1] < rank[c2]

AdminOnly == {"admin_export", "admin_reload"}

C16_Step ==
    /\ (Step /\ last'.op \in AdminOnly /\ ~session[last'.sess].is_admin) =>
          /\ last'.status = "forbidden"
          /\ last'.body.rows = <<>> /\ last'.body.header = <<>>
          /\ export_state' = export_state
          /\ session' = session
          /\ LedgerUnchanged
    /\ (Step /\ last'.op \in AdminOnly /\ last'.status # "forbidden") =>
          session[last'.sess].is_admin
    /\ \A s \in Sessions :
          (session'[s].is_admin /\ ~session[s].is_admin) =>
              (last'.op = "admin" /\ last'.sess = s /\ last'.status = "redirect")

\* C16: a session is an admin session only from a POST /admin in that session
\* that was accepted, which no wrong password is; admin_export and
\* admin_reload answer and move the last-export marker only in an admin
\* session, and in any other session are rejected and change nothing.
C16_AdminGate ==
    /\ [](nreq = 0 => \A s \in Sessions : ~session[s].is_admin)
    /\ [](\A s \in Sessions : \A pwd \in Passwords \ {ADMIN_PASSWORD} :
             /\ admin(session[s], pwd).sess = session[s]
             /\ admin(session[s], pwd).resp.status = "wrong_password")
    /\ [][C16_Step]_vars

\* an export that moved the marker, in the admin session, while the other
\* session is no admin session
C16_Witness ==
    /\ last.op = "admin_export" /\ last.status = "ok"
    /\ export_state # NoBound
    /\ session[last.sess].is_admin
    /\ \E s \in Sessions : ~session[s].is_admin

\* the base items of the page that pass its three facet filters
FacetFiltered(page) ==
    { it \in Upstream(page, TRUE) :
        page.subcategory_selected # <<>> => FieldEq(it.SubCategory, page.subcategory_selected) }

\* the text occurs in the field, whatever the case of either
OccursIn(text, field) ==
    \E i \in 0..(Len(Chars(field)) - Len(text)) :
        \A j \in 1..Len(text) : LowerChar(Chars(field)[i + j]) = LowerChar(text[j])

\* C17: the items shown for a text q are exactly the facet-filtered items in
\* whose code, name, domain, category or subcategory q occurs, case ignored.
C17_TextFilter ==
    PageShown =>
        { last.body.items[i] : i \in 1..Len(last.body.items) }
          = { it \in FacetFiltered(last.body) :
                \E field \in { it.ItemCode, it.ItemName, it.Domain,
                               it.Category, it.SubCategory } :
                    OccursIn(Strip(last.body.q), field) }

\* the page is shown for a customer without any entitlement row
NoEntitlement ==
    /\ PageShown
    /\ \A e \in cust_items : e.CustomerNumber # last.body.customer_id

\* the request of the page shown, as its parameters
PageArgs(page) ==
    [customer_id |-> page.customer_id, show_set |-> page.show_set, q |-> page.q,
     domain |-> page.domain_selected, category |-> page.category_selected,
     subcategory |-> page.subcategory_selected]

\* C18: for a customer without entitlement rows the customer scope shows no
\* item and no facet value, and the scope 'all' shows the catalog under the
\* facet and text filters; another session with other carts gets the same
\* items and facet values for the same request.
C18_EntitlementAbsence ==
    NoEntitlement =>
        LET page == last.body
            other == order_form(ExportSession, PageArgs(page), items, cust_items)
        IN  /\ page.show_set = "customer" =>
                  /\ page.items = <<>>
                  /\ page.domains = <<>>
                  /\ page.categories = <<>>
                  /\ page.subcategories = <<>>
            /\ page.show_set = "all" =>
                  page.items = SortItems(FilterItems(items, page.domain_selected,
                                                     page.category_selected,
                                                     page.subcategory_selected,
                                                     Lower(Strip(page.q))))
            /\ other.items = page.items
            /\ other.domains = page.domains
            /\ other.categories = page.categories
            /\ other.subcategories = page.subcategories

\* the scope 'all' shows items although the entitlement tables name other
\* customers only
C18_WitnessAllScope ==
    /\ NoEntitlement
    /\ cust_items # {}
    /\ last.body.show_set = "all"
    /\ Len(last.body.items) >= 2

\* the customer scope for a customer without rows, with a non-empty catalog
C18_Witness ==
    /\ NoEntitlement
    /\ last.body.show_set = "customer"
    /\ items # {}

\* C19: whatever requests were served, every entry of every cart of every
\* session has a quantity greater than 0, every persisted order line has a
\* quantity greater than 0, and every persisted order has at least one line.
C19_PositiveQuantities ==
    /\ \A s \in Sessions : \A c \in DOMAIN session[s].cart :
          \A k \in DOMAIN session[s].cart[c] : session[s].cart[c][k].qty > 0
    /\ \A j \in 1..Len(order_lines) : order_lines[j].quantity > 0
    /\ \A i \in 1..Len(orders) :
          \E j \in 1..Len(order_lines) : order_lines[j].order_id = orders[i].id

\* after an order was persisted, a line update left an entry in a cart
C19_Witness ==
    /\ last.op = "cart_update_line"
    /\ Len(orders) >= 1
    /\ \E k \in Codes : k \in DOMAIN session[last.sess].cart[Strip(last.customer)]

\* the lines a scope=since_last export would select now
SinceLastSelection ==
    SelectedLines(admin_export(session["s1"], "since_last", NoBound, NoBound, Database,
                               export_state, export_template).resp.body.selected)

\* an order is appended while a marker is stored
C20_Step ==
    (Len(orders') > Len(orders) /\ export_state # NoBound) =>
        orders'[Len(orders')].created_at >= export_state.v

\* C20: a since_last export selects every line of every order created at or
\* after the stored marker (every line when there is no marker); the marker
\* is the creation timestamp of a persisted order, so never later than the
\* newest one; and an order persisted while a marker is stored is created at
\* or after it, so the next since_last export selects it.
C20_ExportCursor ==
    /\ [](LinesBetween(IF export_state = NoBound THEN 0 ELSE export_state.v, clock)
            \subseteq SinceLastSelection)
    /\ [](export_state # NoBound =>
            /\ export_state.kind = "ts"
            /\ \E i \in 1..Len(orders) : orders[i].created_at = export_state.v
            /\ \A i \in 1..Len(orders) :
                  (\A j \in 1..Len(orders) : orders[j].created_at <= orders[i].created_at)
                      => export_state.v <= orders[i].created_at)
    /\ [][C20_Step]_vars

\* an order was persisted after an export stored its marker, at a later time
C20_Witness ==
    /\ last.op = "submit_order" /\ last.status = "saved"
    /\ export_state # NoBound
    /\ Len(orders) = 2
    /\ orders[2].created_at > export_state.v

====
